---- MODULE Spec2Model ----
(***************************************************************************)
(* Model of the drive status panel, www/tape/DriveStatus.js:               *)
(* PBS.TapeManagement.DriveStatus, its view model (online, busy, loaded),  *)
(* its view controller (reload, onLoad, onStateLoad, the command handlers, *)
(* init) and its toolbar bindings.                                         *)
(*                                                                         *)
(* JavaScript strings are sequences of one-character strings, so that      *)
(* String.prototype.split and Array.prototype.indexOf are computed and not *)
(* assumed.  A JavaScript value is a record [t, v]: t is its type tag and  *)
(* v the characters of a string (<<>> for null and undefined).             *)
(***************************************************************************)
EXTENDS Integers, Sequences, FiniteSets, TLC

\* ---------------------------------------------------------------- bounds

\* Longest status string, counted in parts (a word or one whitespace
\* character), that the status endpoint returns in SpecStatus.
MaxParts == 3

\* Most command requests and task windows open at once.
MaxInFlight == 1

\* Most loads of the status store in flight at once.
MaxPendingLoads == 1

\* Most deferred mask/unmask callbacks pending at once.
MaxTimers == 2

\* ------------------------------------------------------ JavaScript values

Null == [t |-> "null", v |-> <<>>]

Undefined == [t |-> "undefined", v |-> <<>>]

Str(s) == [t |-> "string", v |-> s]

\* ToBoolean of a null, undefined or string value (the `!!x` of line 58 and
\* the left operand of `||` in line 44).
Truthy(x) == x.t = "string" /\ Len(x.v) > 0

\* x || y
Or(x, y) == IF Truthy(x) THEN x ELSE y

\* The white space class \s, restricted to the characters the model uses.
IsSpace(c) == c \in {" ", "\t", "\n"}

\* The end (exclusive, 0-based) of the longest match of \s+ that starts at
\* 0-based index q of s, or -1 when s[q] is no white space.  Both
\* alternatives of /\s+|\s+/ are the same greedy \s+.
RECURSIVE SpaceRun(_, _)
SpaceRun(s, e) ==
    IF e < Len(s) /\ IsSpace(s[e + 1]) THEN SpaceRun(s, e + 1) ELSE e

MatchSep(s, q) == IF IsSpace(s[q + 1]) THEN SpaceRun(s, q + 1) ELSE -1

\* String.prototype.split with a regular expression separator (ECMAScript
\* RegExp.prototype[@@split]): p is the start of the current piece, q the
\* position tried next, acc the pieces so far.
RECURSIVE SplitLoop(_, _, _, _)
SplitLoop(s, p, q, acc) ==
    IF q >= Len(s) THEN Append(acc, SubSeq(s, p + 1, Len(s)))
    ELSE LET e == MatchSep(s, q) IN
         IF e = -1 \/ e = p THEN SplitLoop(s, p, q + 1, acc)
         ELSE SplitLoop(s, e, e, Append(acc, SubSeq(s, p + 1, q)))

\* s.split(/\s+|\s+/): the empty string gives [""], as \s+ does not match it.
Split(s) == IF Len(s) = 0 THEN <<s>> ELSE SplitLoop(s, 0, 0, <<>>)

\* arr.indexOf(x), 0-based, -1 when absent (strict equality).
IndexOf(arr, x) ==
    IF \E i \in 1..Len(arr) : arr[i] = x
    THEN (CHOOSE i \in 1..Len(arr) :
             arr[i] = x /\ \A j \in 1..(i - 1) : arr[j] # x) - 1
    ELSE -1

ONLINE == <<"O", "N", "L", "I", "N", "E">>

\* ------------------------------------------------------------ the inputs

\* The name of the panel's drive (view.drive) and of another drive.
drive == "drv0"

DriveNames == {"drv0", "drv1"}

UPID == <<"U", "P", "I", "D", ":">>

\* The values of the state field of the panel's drive: no task, an empty
\* string, the UPID of the task that owns the drive.
DeviceStates == {Null, Str(<<>>), Str(UPID)}

\* The records a snapshot may hold for a drive: the panel's drive in any
\* state, the other drive owned by a task.
RecordsOf(n) ==
    IF n = drive THEN [name : {n}, state : DeviceStates]
    ELSE [name : {n}, state : {Str(UPID)}]

RECURSIVE SeqsUpTo(_, _)
SeqsUpTo(S, n) ==
    IF n = 0 THEN {<<>>}
    ELSE LET shorter == SeqsUpTo(S, n - 1) IN
         shorter \cup {Append(q, x) : q \in shorter, x \in S}

\* The device-list snapshots: one record per drive for some of the drives,
\* the other drive's record, when there is one, ahead of the panel's.
Snapshots ==
    {d \in SeqsUpTo(UNION {RecordsOf(n) : n \in DriveNames},
                    Cardinality(DriveNames)) :
        /\ \A i, j \in 1..Len(d) : d[i].name = d[j].name => i = j
        /\ \A i \in 1..Len(d) : d[i].name = drive => i = Len(d)}

RECURSIVE Concat(_)
Concat(parts) ==
    IF parts = <<>> THEN <<>> ELSE Head(parts) \o Concat(Tail(parts))

\* What status strings are made of: words and single white space characters.
Parts == {ONLINE, <<"X">>, <<" ">>, <<"\t">>}

\* The status field of a status snapshot: missing, or a string of up to n
\* parts.
StatusValues(n) == {Undefined} \cup {Str(Concat(p)) : p \in SeqsUpTo(Parts, n)}

\* The status values of the main specification: missing, "ONLINE X" and
\* "OFF".
MainStatusValues ==
    {Undefined, Str(ONLINE \o <<" ", "X">>), Str(<<"O", "F", "F">>)}

\* ------------------------------------------------------------- the panel

Buttons ==
    {"Reload", "Label Media", "Eject", "Catalog", "Read Label",
     "Volume Statistics", "Cartridge Memory"}

\* The commands of PBS.Utils.driveCommand that the panel issues.
Commands ==
    {"eject-media", "catalog", "read-label", "volume-statistics",
     "cartridge-memory"}

\* The commands whose success callback opens a task window with a taskDone
\* callback (lines 94-101 and 112-119).
TaskCommands == {"eject-media", "catalog"}

VARIABLES
    phase,          \* "new": not yet created; "initialized": controller
                    \* init has run, the view is not yet rendered;
                    \* "open": rendered; "closed": destroyed
    online,         \* view model data (lines 25-31)
    busy,
    loaded,
    disabled,       \* the disabled state of each toolbar button
    tapeStore,      \* the navigation tree's tape store: [loaded, data]
    status,         \* the 'status' row of the status grid's store
    pendingLoads,   \* loads of the status grid's rstore in flight
    timers,         \* pending setTimeout callbacks, in scheduling order
    masked,         \* whether the status grid is masked
    requests,       \* command requests in flight, per command
    tasks,          \* open task windows, per command
    cartridge,      \* whether a cartridge listing is shown
    last,           \* what the last step did
    hist,           \* what the panel has done since it was constructed
    cell            \* a call of render_status: its argument and its result

vars ==
    <<phase, online, busy, loaded, disabled, tapeStore, status, pendingLoads,
      timers, masked, requests, tasks, cartridge, last, hist, cell>>

\* The record of a step: the handler that ran (op), its argument (a button or
\* a command), whether it threw, the number of rstore.load() calls it made
\* and the number of task windows it created; ok is the final status of the
\* task whose completion the step delivered, scheduled the number of
\* setTimeout calls the step made and masks the number of mask() and
\* unmask() calls it made on the status grid.
Did(op, arg, threw, reloads, created) ==
    [op |-> op, arg |-> arg, threw |-> threw, reloads |-> reloads,
     created |-> created, ok |-> TRUE, scheduled |-> 0, masks |-> 0]

\* A variant of viewModelData in which busy starts false.
viewModelDataIdle == [online |-> FALSE, busy |-> FALSE, loaded |-> FALSE]

\* viewModel: { data: { online: false, busy: true, loaded: false } }
viewModelData == [online |-> FALSE, busy |-> TRUE, loaded |-> FALSE]

\* A variant of Bind in which Reload is bound like the command buttons.
BindReloadOnline(b) == "{!online}"

\* A variant of Bind in which Eject is bound like Reload.
BindEjectBusy(b) == IF b \in {"Reload", "Eject"} THEN "{busy}" ELSE "{!online}"

\* The bind expression of each toolbar button's disabled config (tbar).
Bind(b) == IF b = "Reload" THEN "{busy}" ELSE "{!online}"

\* The value of a bind expression over the view model's data.
EvalBind(expr, on, bs) == IF expr = "{busy}" THEN bs ELSE ~on

\* The buttons' disabled state once the view model has published on and bs.
Bindings(on, bs) == [b \in Buttons |-> EvalBind(Bind(b), on, bs)]

\* The references of the view's items: lookup(ref) is null for any other.
References == {"statusgrid"}

lookup(ref) == IF ref \in References THEN ref ELSE "null"

\* store.findRecord('name', value, 0, false, true, true): the 1-based index
\* of the first record whose name is exactly value, 0 for null.
findRecord(store, value) ==
    IF \E i \in 1..Len(store.data) : store.data[i].name = value
    THEN CHOOSE i \in 1..Len(store.data) :
            /\ store.data[i].name = value
            /\ \A j \in 1..(i - 1) : store.data[j].name # value
    ELSE 0

\* reload: me.lookup('statusgrid').rstore.load()
reload == pendingLoads' = pendingLoads + 1

\* A variant of BusyOf that tests for null only: `state !== null`.
BusyOfNotNull(rec) == rec.state # Null

\* let busy = !!driveRecord.data.state
BusyOf(rec) == Truthy(rec.state)

\* A variant of LatchValue that leaves the latch unset.
LatchValueUnset == FALSE

\* vm.set('loaded', true)
LatchValue == TRUE

\* A variant of MaskDue that masks on every busy snapshot.
MaskDueAlways(ld, b) == b

\* if (!vm.get('loaded')) { if (busy) { ... mask ... } }
MaskDue(ld, b) == ~ld /\ b

\* if (!vm.get('loaded')) { if (busy) { ... } else { ... unmask, reload,
\* set loaded ... } }
UnmaskDue(ld, b) == ~ld /\ ~b

\* A variant of DeferMask in which the handler calls mask and unmask itself.
DeferMaskNot == FALSE

\* Whether mask and unmask are called through setTimeout (lines 65 and 71).
DeferMask == TRUE

\* A variant of MaskDelay with a longer delay than the unmask callback's.
MaskDelayLong == 10 + 10

\* The delay of the mask callback's setTimeout (line 67), in milliseconds.
MaskDelay == 10

\* The delay of the unmask callback's setTimeout (line 73), in milliseconds.
UnmaskDelay == 10

Delay(cb) == IF cb = "mask" THEN MaskDelay ELSE UnmaskDelay

\* Whether the i-th pending callback of q may run next: a callback scheduled
\* earlier with a delay that is not longer runs before it.
CanFire(q, i) == \A j \in 1..(i - 1) : Delay(q[j]) > Delay(q[i])

\* onStateLoad(store)
onStateLoad(store) ==
    LET i == findRecord(store, drive) IN
    IF i = 0
    THEN \* driveRecord is null and `driveRecord.data` throws a TypeError
         /\ last' = Did("onStateLoad", "", TRUE, 0, 0)
         /\ UNCHANGED <<busy, loaded, disabled, pendingLoads, timers, masked,
                        hist>>
    ELSE LET b == BusyOf(store.data[i])
             idle == store.data[i].state \in {Null, Str(<<>>)}
             cb == IF MaskDue(loaded, b) THEN "mask"
                   ELSE IF UnmaskDue(loaded, b) THEN "unmask" ELSE "none"
             n == IF UnmaskDue(loaded, b) THEN 1 ELSE 0
             did == Did("onStateLoad", "", FALSE, n, 0) IN
         /\ busy' = b
         /\ disabled' = Bindings(online, b)
         /\ IF n = 1 THEN reload ELSE UNCHANGED pendingLoads
         /\ loaded' = IF n = 1 THEN LatchValue ELSE loaded
         /\ hist' = [idleSeen |-> hist.idleSeen \/ idle,
                     autoReloads |-> hist.autoReloads + n]
         /\ IF cb = "none"
            THEN /\ last' = did
                 /\ UNCHANGED <<timers, masked>>
            ELSE IF DeferMask
            THEN /\ timers' = Append(timers, cb)
                 /\ last' = [did EXCEPT !.scheduled = 1]
                 /\ UNCHANGED masked
            ELSE /\ masked' = (cb = "mask")
                 /\ last' = [did EXCEPT !.masks = 1]
                 /\ UNCHANGED timers

\* statusgrid.getObjectValue('status'): the row's value, undefined without
\* the row.
getObjectValue(st) == st

\* A variant of OnlineOf that looks for ONLINE anywhere in the string:
\* `status.indexOf('ONLINE') !== -1`.
OnlineOfSubstring(st) ==
    LET s == Or(getObjectValue(st), Str(<<>>)).v IN
    \E i \in 1..Len(s) :
        /\ i + Len(ONLINE) - 1 <= Len(s)
        /\ SubSeq(s, i, i + Len(ONLINE) - 1) = ONLINE

\* let online = statusFlags.indexOf('ONLINE') !== -1
OnlineOf(st) == IndexOf(Split(Or(getObjectValue(st), Str(<<>>)).v), ONLINE) # -1

\* onLoad, for the status store's content st
onLoad(st) ==
    LET on == OnlineOf(st) IN
    /\ online' = on
    /\ disabled' = Bindings(on, busy)
    /\ IF on
       THEN /\ last' = Did("onLoad", "", FALSE, 0, 0)
            /\ UNCHANGED cartridge
       ELSE IF lookup("cartridgegrid") = "null"
       THEN \* `null.getStore()` throws a TypeError, after vm.set
            /\ last' = Did("onLoad", "", TRUE, 0, 0)
            /\ UNCHANGED cartridge
       ELSE /\ last' = Did("onLoad", "", FALSE, 0, 0)
            /\ cartridge' = FALSE

\* The command each command button's handler passes to PBS.Utils.driveCommand.
CommandOf(b) ==
    CASE b = "Eject" -> "eject-media"
      [] b = "Catalog" -> "catalog"
      [] b = "Read Label" -> "read-label"
      [] b = "Volume Statistics" -> "volume-statistics"
      [] b = "Cartridge Memory" -> "cartridge-memory"

\* A variant of SuccessCallback in which readLabel opens a task window too.
SuccessCallbackReadLabelTask(cmd) ==
    CASE cmd = "eject-media" -> "TaskProgress"
      [] cmd = "catalog" -> "TaskViewer"
      [] cmd = "read-label" -> "TaskViewer"
      [] cmd = "volume-statistics" -> "showVolumeStatisticsWindow"
      [] cmd = "cartridge-memory" -> "showCartridgeMemoryWindow"

\* The success callback each handler passes with its command.
SuccessCallback(cmd) ==
    CASE cmd = "eject-media" -> "TaskProgress"
      [] cmd = "catalog" -> "TaskViewer"
      [] cmd = "read-label" -> "showMediaLabelWindow"
      [] cmd = "volume-statistics" -> "showVolumeStatisticsWindow"
      [] cmd = "cartridge-memory" -> "showCartridgeMemoryWindow"

\* Whether a success callback creates a task window with a taskDone callback.
CreatesTask(cb) == cb \in {"TaskProgress", "TaskViewer"}

\* A variant of TaskDoneReloads that reloads after a successful task only:
\* `taskDone: function(success) { if (success) me.reload(); }`.
TaskDoneReloadsOnSuccess(cmd, ok) == ok

\* taskDone: function() { me.reload(); } -- whether the callback reloads,
\* given the success flag the task window passes and the callback ignores.
TaskDoneReloads(cmd, ok) == TRUE

\* A variant of FailureCallback in which the handlers reload on failure.
FailureCallbackReload(cmd) == "reload"

\* The failure callback each handler passes with its command: none of the
\* option objects of lines 91-102, 109-120, 128-131, 138-141 and 148-151
\* has a `failure` key.
FailureCallback(cmd) == "none"

\* A variant of SuccessReloads in which the success callback of a task
\* command reloads at once instead of leaving it to taskDone.
SuccessReloadsTask(cmd) == cmd \in TaskCommands

\* Whether the success callback of a command calls me.reload() itself: none
\* does, the task commands leave it to taskDone.
SuccessReloads(cmd) == FALSE

Total(f) ==
    f["eject-media"] + f["catalog"] + f["read-label"] + f["volume-statistics"]
        + f["cartridge-memory"]

InFlight == Total(requests) + Total(tasks)

\* ---------------------------------------------------------------------
\* PBS.RunningTasks: the controller's render_status.

\* A string literal as the sequence of its characters.
OK == <<"O", "K">>
WARNINGS == <<"W", "A", "R", "N", "I", "N", "G", "S">>
unknown == <<"u", "n", "k", "n", "o", "w", "n">>

\* String.prototype.startsWith
StartsWith(s, prefix) ==
    /\ Len(s) >= Len(prefix)
    /\ SubSeq(s, 1, Len(prefix)) = prefix

\* A variant of WarningsPrefix without the colon.
WarningsPrefixBare == WARNINGS

\* The prefix render_status tests with startsWith.
WarningsPrefix == WARNINGS \o <<":">>

\* render_status(value): the markup of the status glyph, as the pieces of
\* the template literal.
render_status(value) ==
    LET cls == IF value = OK THEN "check-circle good"
               ELSE IF StartsWith(value, WarningsPrefix)
               THEN "exclamation-circle warning"
               ELSE IF value = unknown THEN "question-circle faded"
               ELSE "times-circle critical" IN
    <<"<i class=\"fa fa-", cls, "\"></i>">>

\* The pieces terminal status strings are made of, and the strings of up to
\* MaxParts pieces.
StatusParts == {OK, WARNINGS, <<":">>, unknown, <<"X">>}
TerminalStatuses ==
    {Concat(q) : q \in SeqsUpTo(StatusParts, MaxParts)}

\* Before render_status has been called there is no markup.
EmptyCell == [value |-> <<>>, html |-> <<>>]

\* The panel before it is created: the view model's initial data, every
\* button disabled, nothing in flight.
PanelInit ==
    /\ phase = "new"
    /\ online = viewModelData.online
    /\ busy = viewModelData.busy
    /\ loaded = viewModelData.loaded
    /\ disabled = Bindings(viewModelData.online, viewModelData.busy)
    /\ tapeStore = [loaded |-> FALSE, data |-> <<>>]
    /\ status = Undefined
    /\ pendingLoads = 0
    /\ timers = <<>>
    /\ masked = FALSE
    /\ requests = [c \in Commands |-> 0]
    /\ tasks = [c \in Commands |-> 0]
    /\ cartridge = FALSE
    /\ last = Did("none", "", FALSE, 0, 0)
    /\ hist = [idleSeen |-> FALSE, autoReloads |-> 0]

Init ==
    /\ PanelInit
    /\ cell = EmptyCell

\* The tape store's poller publishes a snapshot: the store replaces its
\* content and fires 'load', which runs onStateLoad while the panel's
\* controller is subscribed.
TapeStoreLoad(snap) ==
    /\ phase # "initialized"
    /\ Len(timers) < MaxTimers
    /\ pendingLoads < MaxPendingLoads \/ loaded
    /\ tapeStore' = [loaded |-> TRUE, data |-> snap]
    /\ IF phase = "open"
       THEN onStateLoad(tapeStore')
       ELSE /\ last' = Did("tapeload", "", FALSE, 0, 0)
            /\ UNCHANGED <<busy, loaded, disabled, pendingLoads, timers,
                           masked, hist>>
    /\ UNCHANGED <<phase, online, status, requests, tasks, cartridge>>
    /\ UNCHANGED cell

\* init(view): subscribe to both stores and handle the snapshot the tape
\* store already holds.
init ==
    /\ phase = "new"
    /\ phase' = "initialized"
    /\ IF tapeStore.loaded
       THEN onStateLoad(tapeStore)
       ELSE /\ last' = Did("init", "", FALSE, 0, 0)
            /\ UNCHANGED <<busy, loaded, disabled, pendingLoads, timers,
                           masked, hist>>
    /\ UNCHANGED <<online, tapeStore, status, requests, tasks, cartridge>>
    /\ UNCHANGED cell

\* The view's first layout pass, in the task that created the panel: no
\* event is handled and no timer runs between init and it.
render ==
    /\ phase = "initialized"
    /\ phase' = "open"
    /\ last' = Did("render", "", FALSE, 0, 0)
    /\ UNCHANGED <<online, busy, loaded, disabled, tapeStore, status,
                   pendingLoads, timers, masked, requests, tasks, cartridge,
                   hist>>
    /\ UNCHANGED cell

\* The panel is closed: the view, its status grid and its controller are
\* destroyed and the listeners init added with mon are removed.  Requests in
\* flight, task windows and pending timeouts are left alone.
close ==
    /\ phase = "open"
    /\ phase' = "closed"
    /\ masked' = FALSE
    /\ last' = Did("close", "", FALSE, 0, 0)
    /\ UNCHANGED <<online, busy, loaded, disabled, tapeStore, status,
                   pendingLoads, timers, requests, tasks, cartridge, hist>>
    /\ UNCHANGED cell

\* A load of the status grid's rstore completes with the status value st and
\* fires 'load', which runs onLoad.
StatusLoad(st) ==
    /\ phase = "open"
    /\ pendingLoads > 0
    /\ pendingLoads' = pendingLoads - 1
    /\ status' = st
    /\ onLoad(status')
    /\ UNCHANGED <<phase, busy, loaded, tapeStore, timers, masked, requests,
                   tasks, hist>>
    /\ UNCHANGED cell

\* A deferred callback of onStateLoad runs: statusgrid.mask / unmask, which
\* throws a TypeError on a destroyed grid.
TimerFire ==
    \E i \in 1..Len(timers) :
        /\ phase # "initialized"
        /\ CanFire(timers, i)
        /\ timers' = SubSeq(timers, 1, i - 1) \o SubSeq(timers, i + 1, Len(timers))
        /\ IF phase = "closed"
           THEN /\ last' = Did("timer", timers[i], TRUE, 0, 0)
                /\ UNCHANGED masked
           ELSE /\ masked' = (timers[i] = "mask")
                /\ last' = [Did("timer", timers[i], FALSE, 0, 0)
                              EXCEPT !.masks = 1]
        /\ UNCHANGED <<phase, online, busy, loaded, disabled, tapeStore,
                       status, pendingLoads, requests, tasks, cartridge, hist>>
    /\ UNCHANGED cell

\* The operator clicks the Reload button: handler 'reload'.
ClickReload ==
    /\ phase = "open"
    /\ ~disabled["Reload"]
    /\ pendingLoads < MaxPendingLoads
    /\ reload
    /\ last' = Did("click", "Reload", FALSE, 1, 0)
    /\ UNCHANGED <<phase, online, busy, loaded, disabled, tapeStore, status,
                   timers, masked, requests, tasks, cartridge, hist>>
    /\ UNCHANGED cell

\* labelMedia: shows a LabelMediaWindow for the drive.
labelMedia ==
    /\ phase = "open"
    /\ ~disabled["Label Media"]
    /\ last' = Did("click", "Label Media", FALSE, 0, 0)
    /\ UNCHANGED <<phase, online, busy, loaded, disabled, tapeStore, status,
                   pendingLoads, timers, masked, requests, tasks, cartridge,
                   hist>>
    /\ UNCHANGED cell

\* ejectMedia, catalog, readLabel, volumeStatistics, cartridgeMemory: the
\* handler of command button b sends its command with PBS.Utils.driveCommand.
ClickCommand(b) ==
    /\ phase = "open"
    /\ ~disabled[b]
    /\ InFlight < MaxInFlight
    /\ requests' = [requests EXCEPT ![CommandOf(b)] = @ + 1]
    /\ last' = Did("click", b, FALSE, 0, 0)
    /\ UNCHANGED <<phase, online, busy, loaded, disabled, tapeStore, status,
                   pendingLoads, timers, masked, tasks, cartridge, hist>>
    /\ UNCHANGED cell

\* The backend answers a command request with success: the request's success
\* callback runs.
CommandSuccess(cmd) ==
    LET n == IF SuccessReloads(cmd) THEN 1 ELSE 0
        m == IF CreatesTask(SuccessCallback(cmd)) THEN 1 ELSE 0 IN
    /\ requests[cmd] > 0
    /\ requests' = [requests EXCEPT ![cmd] = @ - 1]
    /\ pendingLoads + n <= MaxPendingLoads
    /\ pendingLoads' = pendingLoads + n
    /\ tasks' = [tasks EXCEPT ![cmd] = @ + m]
    /\ cartridge' =
          (cartridge \/ SuccessCallback(cmd) = "showCartridgeMemoryWindow")
    /\ last' = Did("success", cmd, FALSE, n, m)
    /\ UNCHANGED <<phase, online, busy, loaded, disabled, tapeStore, status,
                   timers, masked, hist>>
    /\ UNCHANGED cell

\* A command request fails (transport error or rejection by the backend):
\* driveCommand's failure callback shows the error, then the handler's own
\* failure callback runs, if it passed one.
CommandFailure(cmd) ==
    LET n == IF FailureCallback(cmd) = "reload" THEN 1 ELSE 0 IN
    /\ requests[cmd] > 0
    /\ requests' = [requests EXCEPT ![cmd] = @ - 1]
    /\ pendingLoads + n <= MaxPendingLoads
    /\ pendingLoads' = pendingLoads + n
    /\ last' = Did("failure", cmd, FALSE, n, 0)
    /\ UNCHANGED <<phase, online, busy, loaded, disabled, tapeStore, status,
                   timers, masked, tasks, cartridge, hist>>
    /\ UNCHANGED cell

\* The task window of a command sees its task end, with final status ok or
\* not, and calls taskDone once.  After the panel is closed me.reload() finds
\* no status grid and throws a TypeError.
TaskDone(cmd, ok) ==
    /\ tasks[cmd] > 0
    /\ tasks' = [tasks EXCEPT ![cmd] = @ - 1]
    /\ IF ~TaskDoneReloads(cmd, ok)
       THEN /\ last' = [Did("taskDone", cmd, FALSE, 0, 0) EXCEPT !.ok = ok]
            /\ UNCHANGED pendingLoads
       ELSE IF phase = "closed"
       THEN /\ last' = [Did("taskDone", cmd, TRUE, 0, 0) EXCEPT !.ok = ok]
            /\ UNCHANGED pendingLoads
       ELSE /\ pendingLoads < MaxPendingLoads
            /\ reload
            /\ last' = [Did("taskDone", cmd, FALSE, 1, 0) EXCEPT !.ok = ok]
    /\ UNCHANGED <<phase, online, busy, loaded, disabled, tapeStore, status,
                   timers, masked, requests, cartridge, hist>>
    /\ UNCHANGED cell

Next ==
    \/ init
    \/ render
    \/ close
    \/ \E snap \in Snapshots : TapeStoreLoad(snap)
    \/ \E st \in MainStatusValues : StatusLoad(st)
    \/ TimerFire
    \/ ClickReload
    \/ labelMedia
    \/ \E b \in Buttons \ {"Reload", "Label Media"} : ClickCommand(b)
    \/ \E cmd \in Commands : CommandSuccess(cmd)
    \/ \E cmd \in Commands : CommandFailure(cmd)
    \/ \E cmd \in TaskCommands, ok \in BOOLEAN : TaskDone(cmd, ok)

Spec == Init /\ [][Next]_vars

\* The panel once it is open, has handled an idle snapshot of its drive and
\* has run the deferred unmask, its automatic reload in flight: a state of
\* Spec, from which SpecStatus feeds onLoad every status value of up to
\* MaxParts parts.
InitStatus ==
    /\ phase = "open"
    /\ online = FALSE
    /\ busy = FALSE
    /\ loaded = TRUE
    /\ disabled = Bindings(FALSE, FALSE)
    /\ tapeStore = [loaded |-> TRUE, data |-> <<[name |-> drive, state |-> Null]>>]
    /\ status = Undefined
    /\ pendingLoads = 1
    /\ timers = <<>>
    /\ masked = FALSE
    /\ requests = [c \in Commands |-> 0]
    /\ tasks = [c \in Commands |-> 0]
    /\ cartridge = FALSE
    /\ last = [Did("timer", "unmask", FALSE, 0, 0) EXCEPT !.masks = 1]
    /\ hist = [idleSeen |-> TRUE, autoReloads |-> 1]
    /\ cell = EmptyCell

NextStatus ==
    \/ \E st \in StatusValues(MaxParts) : StatusLoad(st)
    \/ ClickReload

SpecStatus == InitStatus /\ [][NextStatus]_vars

\* render_status alone: a task has ended with some terminal status and
\* render_status is called with it.
InitRender ==
    /\ PanelInit
    /\ cell \in {[value |-> v, html |-> <<>>] : v \in TerminalStatuses}

RenderCell ==
    /\ cell.html = <<>>
    /\ cell' = [cell EXCEPT !.html = render_status(cell.value)]
    /\ UNCHANGED <<phase, online, busy, loaded, disabled, tapeStore, status,
                   pendingLoads, timers, masked, requests, tasks, cartridge,
                   last, hist>>

NextRender == RenderCell

SpecRender == InitRender /\ [][NextRender]_vars

\* ----------------------------------------------------------------- claims

\* The record of the panel's drive in the tape store's snapshot, as a set:
\* empty when the snapshot has none.
DriveRecords ==
    {tapeStore.data[i] : i \in {j \in 1..Len(tapeStore.data) :
                                    tapeStore.data[j].name = drive}}

\* C1: after onStateLoad has handled a snapshot that holds a record of the
\* panel's drive, busy is true exactly when that record's state is neither
\* null nor the empty string, whatever the loaded latch is.
Inv_C1 ==
    (last.op = "onStateLoad" /\ DriveRecords # {}) =>
        \A r \in DriveRecords :
            busy = (r.state # Null /\ r.state # Str(<<>>))

\* A busy snapshot handled after the latch was set.
Wit_C1 ==
    /\ last.op = "onStateLoad"
    /\ loaded
    /\ busy
    /\ \E r \in DriveRecords : r.state = Str(UPID)

\* C2: after onStateLoad has handled a snapshot without a record of the
\* panel's drive, busy and online are false and the handler did not throw.
CE_C2 ==
    (last.op = "onStateLoad" /\ DriveRecords = {}) =>
        (~busy /\ ~online /\ ~last.threw)

\* The text of a status value: empty when the value is missing.
StatusText(st) == IF st.t = "string" THEN st.v ELSE <<>>

\* Whether tok stands in s between white space or the ends of s.
ContainsToken(s, tok) ==
    \E i \in 1..Len(s) :
        LET j == i + Len(tok) - 1 IN
        /\ j <= Len(s)
        /\ SubSeq(s, i, j) = tok
        /\ i = 1 \/ IsSpace(s[i - 1])
        /\ j = Len(s) \/ IsSpace(s[j + 1])

\* C3: after onLoad has handled a status snapshot, online is true exactly
\* when the snapshot's status text holds ONLINE as a token delimited by
\* white space; a missing or empty status gives false.
Inv_C3 ==
    last.op = "onLoad" => (online = ContainsToken(StatusText(status), ONLINE))

\* onLoad has handled a status in which ONLINE is not the first token.
Wit_C3 ==
    /\ last.op = "onLoad"
    /\ online
    /\ status = Str(<<"X", "\t">> \o ONLINE)

\* C4: the automatic unmask-and-reload has fired once if an idle snapshot of
\* the drive has been handled and never otherwise, the latch is set exactly
\* from that snapshot on, and the step that fires it is the onStateLoad that
\* sets the latch, schedules the unmask and reloads once.
Step_C4 ==
    /\ loaded => loaded'
    /\ (hist'.autoReloads # hist.autoReloads \/ loaded' # loaded) =>
          /\ ~loaded /\ loaded' /\ ~hist.idleSeen
          /\ hist'.autoReloads = hist.autoReloads + 1
          /\ last'.op = "onStateLoad" /\ ~busy'
          /\ timers' = Append(timers, "unmask")
          /\ pendingLoads' = pendingLoads + 1

Thm_C4 ==
    /\ [](loaded = hist.idleSeen)
    /\ [](hist.autoReloads = IF hist.idleSeen THEN 1 ELSE 0)
    /\ [][Step_C4]_vars

\* An idle snapshot handled after the latch was set, without a reload.
Wit_C4 ==
    /\ last.op = "onStateLoad"
    /\ ~busy
    /\ last.reloads = 0
    /\ loaded
    /\ hist.autoReloads = 1

\* C5: each command button is disabled exactly when online is false and
\* Reload exactly when busy is true.
Inv_C5 ==
    \A b \in Buttons :
        disabled[b] = (IF b = "Reload" THEN busy ELSE ~online)

\* Online and busy: the command buttons are enabled, Reload is not.
Wit_C5 ==
    /\ online
    /\ busy
    /\ disabled["Reload"]
    /\ \A b \in Buttons \ {"Reload"} : ~disabled[b]

\* C6: the success of read-label opens no task window and loads nothing, and
\* read-label never has a task window; the success of eject-media opens
\* exactly one task window and loads nothing; the completion of an
\* eject-media task discards its window and, in a panel that has not been
\* closed, loads the status once.
Step_C6 ==
    /\ (last'.op = "success" /\ last'.arg = "read-label") =>
          (tasks' = tasks /\ pendingLoads' = pendingLoads)
    /\ tasks'["read-label"] = 0
    /\ (last'.op = "success" /\ last'.arg = "eject-media") =>
          /\ tasks' = [tasks EXCEPT !["eject-media"] = @ + 1]
          /\ pendingLoads' = pendingLoads
    /\ (last'.op = "taskDone" /\ last'.arg = "eject-media") =>
          /\ tasks' = [tasks EXCEPT !["eject-media"] = @ - 1]
          /\ phase # "closed" => pendingLoads' = pendingLoads + 1

Thm_C6 == [][Step_C6]_vars

\* The completion of an eject-media task has been delivered.
Wit_C6 ==
    /\ last.op = "taskDone"
    /\ last.arg = "eject-media"
    /\ last.reloads = 1
    /\ tasks["eject-media"] = 0

\* C7: when onLoad takes online from true to false while a cartridge
\* listing is shown, the listing is empty after the handler and the handler
\* did not throw.
CE_C7 ==
    [][(last'.op = "onLoad" /\ online /\ ~online' /\ cartridge) =>
           (~cartridge' /\ ~last'.threw)]_vars

\* C8: a failed command request opens no task window, loads nothing, is not
\* sent again and leaves online, busy and loaded as they were.
Thm_C8 ==
    [][last'.op = "failure" =>
          /\ tasks' = tasks
          /\ pendingLoads' = pendingLoads
          /\ requests' = [requests EXCEPT ![last'.arg] = @ - 1]
          /\ online' = online /\ busy' = busy /\ loaded' = loaded]_vars

\* An eject-media request has failed.
Wit_C8 ==
    /\ last.op = "failure"
    /\ last.arg = "eject-media"
    /\ InFlight = 0

\* C9: in a panel that has not been closed, the completion of an
\* eject-media or catalog task loads the status once, whatever the task's
\* final status.
Thm_C9 ==
    [][(last'.op = "taskDone" /\ last'.arg \in TaskCommands
          /\ phase # "closed") =>
          pendingLoads' = pendingLoads + 1]_vars

\* A catalog task has ended with a failure status and the status was loaded.
Wit_C9 ==
    /\ last.op = "taskDone"
    /\ last.arg = "catalog"
    /\ ~last.ok
    /\ last.reloads = 1
    /\ pendingLoads = 1

\* The task commands in flight: requests sent and task windows open.
TasksInFlight ==
    requests["eject-media"] + requests["catalog"]
        + tasks["eject-media"] + tasks["catalog"]

\* C10: no step loads the status while a task command is in flight (a
\* completion's own load comes as its task leaves the flight).
CE_C10 == last.reloads > 0 => TasksInFlight = 0

\* C10, amended: sending a task command and the success of its request load
\* nothing; the status is loaded only by the first idle snapshot, by a click
\* on Reload and by the completion of a task.
Thm_C10 ==
    [][/\ (last'.op = "click" /\ last'.arg \in {"Eject", "Catalog"}) =>
            pendingLoads' = pendingLoads
       /\ (last'.op = "success" /\ last'.arg \in TaskCommands) =>
            pendingLoads' = pendingLoads
       /\ pendingLoads' > pendingLoads =>
            \/ last'.op = "onStateLoad" /\ ~loaded /\ loaded'
            \/ last'.op = "click" /\ last'.arg = "Reload" /\ ~busy
            \/ last'.op = "taskDone" /\ last'.arg \in TaskCommands]_vars

\* A click on Reload has loaded the status while a catalog task runs.
Wit_C10 ==
    /\ last.op = "click"
    /\ last.arg = "Reload"
    /\ last.reloads = 1
    /\ tasks["catalog"] = 1

\* The class of the glyph of a rendered cell.
GlyphClass == cell.html[2]

\* C12: a rendered status cell shows the good glyph exactly for "OK", the
\* warning glyph exactly for the strings that begin with "WARNINGS:", the
\* faded glyph exactly for "unknown" and the critical glyph for every other
\* string; the four glyph classes differ from one another.
Inv_C12 ==
    cell.html # <<>> =>
        LET v == cell.value
            warn == /\ Len(v) >= 9
                    /\ SubSeq(v, 1, 9) =
                          <<"W", "A", "R", "N", "I", "N", "G", "S", ":">> IN
        /\ Len(cell.html) = 3
        /\ cell.html[1] = "<i class=\"fa fa-" /\ cell.html[3] = "\"></i>"
        /\ GlyphClass = "check-circle good" <=> v = <<"O", "K">>
        /\ GlyphClass = "exclamation-circle warning" <=> warn
        /\ GlyphClass = "question-circle faded" <=>
              v = <<"u", "n", "k", "n", "o", "w", "n">>
        /\ GlyphClass = "times-circle critical" <=>
              (v # <<"O", "K">> /\ ~warn
                 /\ v # <<"u", "n", "k", "n", "o", "w", "n">>)

\* A status that begins with "WARNINGS:" and goes on has been rendered.
Wit_C12 ==
    /\ cell.html # <<>>
    /\ Len(cell.value) > 9
    /\ SubSeq(cell.value, 1, 9) = WARNINGS \o <<":">>
    /\ GlyphClass = "exclamation-circle warning"

\* C11: in a closed panel no step throws, loads the status, or masks or
\* unmasks the status grid.
CE_C11 ==
    phase = "closed" =>
        (~last.threw /\ last.reloads = 0 /\ last.masks = 0)

\* C13: once the latch is set, the drive is busy and every deferred callback
\* has run, the status grid of an open panel is masked.
CE_C13 ==
    (phase = "open" /\ loaded /\ busy /\ timers = <<>>) => masked

\* C13 amended: a snapshot handled after the latch is set schedules no
\* callback and calls neither mask nor unmask, whether the drive is busy in
\* it or not, and leaves the latch set.
Inv_C13 ==
    (last.op = "onStateLoad" /\ ~last.threw /\ last.reloads = 0
       /\ loaded) =>
        (last.scheduled = 0 /\ last.masks = 0)

\* A busy snapshot has been handled after the latch was set and the deferred
\* unmask had run: the grid stays unmasked.
Wit_C13 ==
    /\ last.op = "onStateLoad"
    /\ phase = "open"
    /\ loaded /\ busy
    /\ timers = <<>>
    /\ ~masked

\* C14: while the panel handles events, busy is a function of the latest
\* device-list snapshot alone (true exactly when the snapshot holds a record
\* of the drive with a non-empty state) and online a function of the latest
\* status snapshot alone.
CE_C14 ==
    (phase \in {"initialized", "open"} /\ tapeStore.loaded) =>
        /\ busy = (\E r \in DriveRecords :
                      r.state # Null /\ r.state # Str(<<>>))
        /\ online = ContainsToken(StatusText(status), ONLINE)

Inv_C16 ==
    /\ (last.op = "timer" /\ last.arg = "mask" /\ last.masks = 1
          /\ loaded) =>
          \E i \in 1..Len(timers) : timers[i] = "unmask"
    /\ (loaded /\ timers = <<>>) => ~masked

\* The first idle snapshot came while a busy snapshot's mask was pending:
\* the mask has run, the unmask is the one callback left.
Wit_C16 ==
    /\ last.op = "timer"
    /\ last.arg = "mask"
    /\ last.masks = 1
    /\ loaded
    /\ masked
    /\ timers = <<"unmask">>

\* C17: a button of the toolbar becomes enabled only in a step that handles
\* a snapshot: Reload when onStateLoad handles a device-list snapshot with an
\* empty state for the drive, a command button when onLoad handles a status
\* snapshot that contains the ONLINE token.
Step_C17 ==
    /\ (disabled["Reload"] /\ ~disabled'["Reload"]) =>
          /\ last'.op = "onStateLoad"
          /\ \E r \in DriveRecords' : r.state \in {Null, Str(<<>>)}
    /\ \A b \in Buttons \ {"Reload"} :
          (disabled[b] /\ ~disabled'[b]) =>
              /\ last'.op = "onLoad"
              /\ ContainsToken(StatusText(status'), ONLINE)

\* The view model's initial data, and seven buttons, all disabled.
NewPanel ==
    /\ online = FALSE
    /\ busy = TRUE
    /\ loaded = FALSE
    /\ Cardinality(Buttons) = 7
    /\ \A b \in Buttons : disabled[b] = TRUE

\* C17: a new panel has online false, busy true, loaded false and all seven
\* buttons disabled, and buttons become enabled as Step_C17 says.
Thm_C17 == NewPanel /\ [][Step_C17]_vars

\* The status load of the first idle snapshot has brought the ONLINE token:
\* all seven buttons are enabled.
Wit_C17 ==
    /\ last.op = "onLoad"
    /\ hist.autoReloads = 1
    /\ \A b \in Buttons : ~disabled[b]

\* C18: no step loads the status while busy is true.
CE_C18 == last.reloads > 0 => ~busy

\* C18 amended: a click on Reload and the automatic reload on the first idle
\* snapshot load the status with busy false only; the completion of a task
\* loads the status whatever busy is.
Inv_C18 ==
    /\ (last.reloads > 0 /\ last.op # "taskDone") => ~busy
    /\ (last.op = "taskDone" /\ last.arg \in TaskCommands /\ ~last.threw) =>
          last.reloads = 1

\* A task has completed while the drive was busy and the status was loaded.
Wit_C18 ==
    /\ last.op = "taskDone"
    /\ last.reloads = 1
    /\ busy

====
